---- MODULE Spec2Model ----
(***************************************************************************)
(* speedster: the measurement orchestration of pkg/speedtest (LoadConfig,  *)
(* Runner.selectServers, Runner.Run) and its caller cmd/speedster/main.go. *)
(*                                                                         *)
(* Strings whose contents the code inspects (server IDs, the raw           *)
(* SPEEDTEST_SERVER_ID value) are sequences of one-character strings.      *)
(***************************************************************************)
EXTENDS Integers, Sequences, FiniteSets, TLC

VARIABLES
    pc,           \* position of the process (main, LoadConfig, Run)
    envStrategy,  \* SPEEDTEST_MEASUREMENT_STRATEGY as found in the environment
    config,       \* LoadConfig's resolved values (Config)
    stderr,       \* warnings written to os.Stderr
    fetched,      \* what FetchServers returned: the catalog, or an error
    serverList,   \* the serverList slice of selectServers, as it is now
    servers,      \* Run's servers: what selectServers returned
    i,            \* Run's loop index (0-based)
    server,       \* Run's server of the round in progress
    result,       \* Run's result of the round in progress
    results,      \* Run's results slice
    returned,     \* what Run returned to main
    recorded,     \* results handed to metrics.RecordSpeedTestMetrics
    calls,        \* the external calls made so far, in order
    handles,      \* the speedtest.Server objects the lists point to, by ID
    lastSample,   \* the latency the last finished phase read and reported
    cancelled,    \* whether main's context was cancelled, and when
    rawServerID   \* the argument of parseServerIDs, when it runs on its own

vars == <<pc, envStrategy, config, stderr, fetched, serverList, servers, i,
          server, result, results, returned, recorded, calls, handles,
          lastSample, cancelled, rawServerID>>

----------------------------------------------------------------------------
(* Bounds of the model *)

MaxCount == 3
MaxServers == 3
MaxParts == 3
MaxRawLen == 5

(* Values the environment and the external library are drawn from *)

MeasurementStrategySingleServer == "single-server"
MeasurementStrategyMultiServer == "multi-server"

RawStrategies == {"", MeasurementStrategySingleServer,
                  MeasurementStrategyMultiServer, "round-robin"}

Latencies == {10, 20}

Throughputs == {50}

DigitChars == <<"0", "1", "2", "3", "4", "5", "6", "7", "8", "9">>

IsDigit(c) == \E d \in 1..Len(DigitChars) : DigitChars[d] = c

DigitOf(c) == (CHOOSE d \in 1..Len(DigitChars) : DigitChars[d] = c) - 1

----------------------------------------------------------------------------
(* strconv.Atoi on a string of the model: an optional sign and at least one *)
(* decimal digit, nothing else.                                             *)

RECURSIVE DigitsValue(_, _)
DigitsValue(s, acc) ==
    IF s = <<>> THEN acc
    ELSE DigitsValue(Tail(s), acc * 10 + DigitOf(Head(s)))

Atoi(s) ==
    LET signed == s # <<>> /\ Head(s) \in {"+", "-"}
        digits == IF signed THEN Tail(s) ELSE s
        ok     == digits # <<>> /\ \A k \in 1..Len(digits) : IsDigit(digits[k])
    IN  IF ~ok THEN [ok |-> FALSE, val |-> 0]
        ELSE [ok  |-> TRUE,
              val |-> IF signed /\ Head(s) = "-"
                      THEN 0 - DigitsValue(digits, 0)
                      ELSE DigitsValue(digits, 0)]

----------------------------------------------------------------------------
(* MeasurementStrategy.Valid *)

Valid(s) ==
    s \in {MeasurementStrategySingleServer, MeasurementStrategyMultiServer}

(* getEnv: the default when the variable is unset or empty *)

getEnv(value, defaultValue) ==
    IF value # "" THEN value ELSE defaultValue

----------------------------------------------------------------------------
(* parseServerIDs: strings.Split on ",", strings.TrimSpace, empty parts     *)
(* dropped.                                                                 *)

RECURSIVE Split(_, _)
Split(s, cur) ==
    IF s = <<>> THEN <<cur>>
    ELSE IF Head(s) = "," THEN <<cur>> \o Split(Tail(s), <<>>)
    ELSE Split(Tail(s), Append(cur, Head(s)))

(* the white space strings.TrimSpace removes (of the characters the model *)
(* writes)                                                                *)
IsSpace(c) == c \in {" ", "\t", "\n", "\r"}

RECURSIVE TrimLeft(_)
TrimLeft(s) ==
    IF s # <<>> /\ IsSpace(Head(s)) THEN TrimLeft(Tail(s)) ELSE s

RECURSIVE TrimRight(_)
TrimRight(s) ==
    IF s # <<>> /\ IsSpace(s[Len(s)])
    THEN TrimRight(SubSeq(s, 1, Len(s) - 1))
    ELSE s

(* a trim of the leading white space only *)
TrimSpaceLeftOnly(s) == TrimLeft(s)

TrimSpace(s) == TrimRight(TrimLeft(s))

RECURSIVE NonEmptyTrimmed(_)
NonEmptyTrimmed(parts) ==
    IF parts = <<>> THEN <<>>
    ELSE LET trimmed == TrimSpace(Head(parts))
         IN  IF trimmed # <<>>
             THEN <<trimmed>> \o NonEmptyTrimmed(Tail(parts))
             ELSE NonEmptyTrimmed(Tail(parts))

parseServerIDs(serverIDStr) ==
    IF serverIDStr = <<>> THEN <<>>
    ELSE NonEmptyTrimmed(Split(serverIDStr, <<>>))

----------------------------------------------------------------------------
(* a validation that forgets that no server ID at all is always allowed *)
validateServerIDsNoneRejected(serverIDs, strategy, measurementCount) ==
    LET idCount == Len(serverIDs)
    IN  CASE strategy = MeasurementStrategySingleServer -> idCount > 1
          [] strategy = MeasurementStrategyMultiServer ->
                 idCount # measurementCount
          [] OTHER -> FALSE

(* validateServerIDs: TRUE when it returns an error *)

validateServerIDs(serverIDs, strategy, measurementCount) ==
    LET idCount == Len(serverIDs)
    IN  CASE strategy = MeasurementStrategySingleServer -> idCount > 1
          [] strategy = MeasurementStrategyMultiServer ->
                 idCount # 0 /\ idCount # measurementCount
          [] OTHER -> FALSE

----------------------------------------------------------------------------
(* The server catalog: speedtest.Servers as FetchServers may return it.     *)
(* A server is its ID (a string) and its pre-measured latency.              *)

Itoa(n) == <<DigitChars[n + 1]>>

CatalogIDs == {Itoa(n) : n \in 1..MaxServers}

Server == [id : CatalogIDs, latency : Latencies]

Catalogs ==
    UNION {{c \in [1..k -> Server] :
                \A a, b \in 1..k : a # b => c[a].id # c[b].id} :
           k \in 0..MaxServers}

NoServer == [id |-> <<>>, latency |-> 0]

Min(S) == CHOOSE x \in S : \A y \in S : x <= y

(* sort.Slice(targets, less) with less = targets[i].Latency <             *)
(* targets[j].Latency.  sort.Slice is not a stable sort: elements that     *)
(* compare equal may end in any order, so every ordering of the slice that *)
(* is ascending under less is a possible outcome.                          *)

Reorderings(list) ==
    {[k \in 1..Len(list) |-> list[f[k]]] : f \in Permutations(1..Len(list))}

(* a sort whose less is the wrong way round: highest latency first *)
SortSliceDescending(list) ==
    {s \in Reorderings(list) :
        \A a, b \in 1..Len(s) : a < b => ~(s[a].latency < s[b].latency)}

SortSlice(list) ==
    {s \in Reorderings(list) :
        \A a, b \in 1..Len(s) : a < b => ~(s[b].latency < s[a].latency)}

(* speedtest.Servers.FindServer of github.com/showwin/speedtest-go, the    *)
(* library selectServers calls: an empty list is ErrServerNotFound; each   *)
(* requested ID contributes the first server whose ID parses to it, and an *)
(* ID that matches no server contributes nothing; when nothing matched at  *)
(* all, the result is the one server of lowest latency.                    *)

RECURSIVE FindMatches(_, _)
FindMatches(list, serverID) ==
    IF serverID = <<>> THEN <<>>
    ELSE LET sid  == Head(serverID)
             hits == {k \in 1..Len(list) :
                         Atoi(list[k].id).ok /\ Atoi(list[k].id).val = sid}
         IN  (IF hits = {} THEN <<>> ELSE <<list[Min(hits)]>>)
                 \o FindMatches(list, Tail(serverID))

LowestLatencyIndex(list) ==
    Min({k \in 1..Len(list) :
            \A j \in 1..Len(list) : list[k].latency <= list[j].latency})

FindServer(list, serverID) ==
    IF Len(list) <= 0 THEN [err |-> TRUE, targets |-> <<>>]
    ELSE LET retServer == FindMatches(list, serverID)
         IN  [err     |-> FALSE,
              targets |-> IF Len(retServer) = 0
                          THEN <<list[LowestLatencyIndex(list)]>>
                          ELSE retServer]

----------------------------------------------------------------------------
(* Runner.selectServers *)

(* the strconv.Atoi loop over config.ServerIDs *)
RECURSIVE preferredServers(_)
preferredServers(ids) ==
    IF ids = <<>> THEN [ok |-> TRUE, ids |-> <<>>]
    ELSE LET a    == Atoi(Head(ids))
             rest == preferredServers(Tail(ids))
         IN  IF a.ok /\ rest.ok
             THEN [ok |-> TRUE, ids |-> <<a.val>> \o rest.ids]
             ELSE [ok |-> FALSE, ids |-> <<>>]

(* targets, and what has become of the serverList slice, after the        *)
(* "if len(r.config.ServerIDs) > 0 ... else ..." statement; targets =     *)
(* serverList shares the slice, so sorting targets sorts serverList.      *)
(* a selection that sorts the fetched list whatever the strategy is *)
TargetsSortAnyStrategy(cfg, catalog) ==
    IF Len(cfg.serverIDs) > 0
    THEN LET p == preferredServers(cfg.serverIDs)
         IN  IF ~p.ok
             THEN {[err |-> TRUE, targets |-> <<>>, serverList |-> catalog]}
             ELSE LET f == FindServer(catalog, p.ids)
                  IN  {[err |-> f.err, targets |-> f.targets,
                        serverList |-> catalog]}
    ELSE {[err |-> FALSE, targets |-> s, serverList |-> s] :
              s \in SortSlice(catalog)}

Targets(cfg, catalog) ==
    IF Len(cfg.serverIDs) > 0
    THEN LET p == preferredServers(cfg.serverIDs)
         IN  IF ~p.ok
             THEN {[err |-> TRUE, targets |-> <<>>, serverList |-> catalog]}
             ELSE LET f == FindServer(catalog, p.ids)
                  IN  {[err |-> f.err, targets |-> f.targets,
                        serverList |-> catalog]}
    ELSE IF cfg.strategy = MeasurementStrategyMultiServer
         THEN {[err |-> FALSE, targets |-> s, serverList |-> s] :
                   s \in SortSlice(catalog)}
         ELSE {[err |-> FALSE, targets |-> catalog, serverList |-> catalog]}

(* a selectServers that checks for "no servers found" in the single-server *)
(* case only                                                               *)
SelectionFailsSingleOnly(cfg, t) ==
    \/ t.err
    \/ Len(t.targets) = 0 /\ cfg.strategy # MeasurementStrategyMultiServer

(* selectServers returns an error after the fetch: FindServer's error, an *)
(* invalid server ID, or "no servers found"                              *)
SelectionFails(cfg, t) == t.err \/ Len(t.targets) = 0

(* a selection that hands every target back in single-server mode too *)
selectedServersAllTargets(cfg, targets) ==
    IF Len(cfg.serverIDs) > 0 \/ cfg.strategy # MeasurementStrategyMultiServer
    THEN targets
    ELSE SubSeq(targets, 1,
                IF cfg.count > Len(targets) THEN Len(targets) ELSE cfg.count)

(* a multi-server selection without server IDs that is one server short *)
selectedServersOneShort(cfg, targets) ==
    CASE cfg.strategy = MeasurementStrategySingleServer -> <<targets[1]>>
      [] cfg.strategy = MeasurementStrategyMultiServer ->
             IF Len(cfg.serverIDs) > 0 THEN targets
             ELSE LET count == IF cfg.count > Len(targets)
                               THEN Len(targets) ELSE cfg.count
                  IN  SubSeq(targets, 1, count - 1)
      [] OTHER -> <<targets[1]>>

(* the "switch r.config.MeasurementStrategy" statement *)
selectedServers(cfg, targets) ==
    CASE cfg.strategy = MeasurementStrategySingleServer -> <<targets[1]>>
      [] cfg.strategy = MeasurementStrategyMultiServer ->
             IF Len(cfg.serverIDs) > 0 THEN targets
             ELSE LET count == IF cfg.count > Len(targets)
                               THEN Len(targets) ELSE cfg.count
                  IN  SubSeq(targets, 1, count)
      [] OTHER -> <<targets[1]>>

(* the warning of the multi-server branch *)
TooFewServers(cfg, targets) ==
    /\ cfg.strategy = MeasurementStrategyMultiServer
    /\ Len(cfg.serverIDs) = 0
    /\ cfg.count > Len(targets)

(* a loop that stays on the last server once it has run out of servers *)
RoundServerNoWrap(strategy, list, idx) ==
    IF strategy = MeasurementStrategySingleServer THEN list[1]
    ELSE IF idx < Len(list) THEN list[idx + 1]
    ELSE list[Len(list)]

(* the 0-based index Run looks the server of round idx (0-based) up at, *)
(* in a list of n servers                                               *)
RoundIndex(strategy, n, idx) ==
    IF strategy = MeasurementStrategySingleServer THEN 0
    ELSE IF idx < n THEN idx
    ELSE idx % n

(* Run's choice of the server of round i (0-based) *)
RoundServer(strategy, list, idx) ==
    list[RoundIndex(strategy, Len(list), idx) + 1]

----------------------------------------------------------------------------
(* The environment LoadConfig reads *)

RawCounts == 0..MaxCount

(* the comma-separated parts SPEEDTEST_SERVER_ID is made of *)
RawTokens == {<<"1">>, <<"2", " ">>, <<"x">>, <<" ">>}

RECURSIVE JoinComma(_)
JoinComma(parts) ==
    IF parts = <<>> THEN <<>>
    ELSE IF Len(parts) = 1 THEN Head(parts)
    ELSE Head(parts) \o <<",">> \o JoinComma(Tail(parts))

RawServerIDs ==
    {JoinComma(parts) :
        parts \in UNION {[1..n -> RawTokens] : n \in 0..MaxParts}}

NoConfig ==
    [serverIDs |-> <<>>, count |-> 0, strategy |-> "",
     skipDownload |-> FALSE, skipUpload |-> FALSE]

NoResult ==
    [server |-> <<>>, index |-> 0, download |-> 0, upload |-> 0,
     latency |-> 0]

(* a speedtest.Server as an object: the fields that are read and written *)
(* through the pointers the lists hold.  latency stands for the pair     *)
(* Latency, Jitter, which the code always reads together.                *)
NoHandle == [latency |-> 0, dl |-> 0, ul |-> 0]

NoHandles == [id \in CatalogIDs |-> NoHandle]

(* the objects of a freshly fetched catalog *)
FetchedHandles(catalog) ==
    [id \in CatalogIDs |->
        IF \E k \in 1..Len(catalog) : catalog[k].id = id
        THEN [NoHandle EXCEPT !.latency =
                 catalog[CHOOSE k \in 1..Len(catalog) :
                             catalog[k].id = id].latency]
        ELSE NoHandle]

NoSample == [round |-> 0, op |-> "", latency |-> 0]

NotFetched == [done |-> FALSE, err |-> FALSE, servers |-> <<>>]

(* FetchServers' "return servers, nil" and its error return *)
FetchedServers(catalog) == [done |-> TRUE, err |-> FALSE, servers |-> catalog]

FetchFailed == [done |-> TRUE, err |-> TRUE, servers |-> <<>>]

NotReturned == [done |-> FALSE, err |-> FALSE, results |-> <<>>]

(* a Run that hands back the rounds completed so far with its error *)
ReturnErrorWithPartial(partial) ==
    [done |-> TRUE, err |-> TRUE, results |-> partial]

(* Run's "return nil, fmt.Errorf(...)" *)
ReturnError(partial) == [done |-> TRUE, err |-> TRUE, results |-> <<>>]

(* Run's "return results, nil" *)
ReturnResults(all) == [done |-> TRUE, err |-> FALSE, results |-> all]

Call(op, round) == [op |-> op, round |-> round]

(* main's context before cancel() was called *)
NotCancelled == [when |-> "no", calls |-> 0]

Init ==
    /\ pc = "start"
    /\ envStrategy \in RawStrategies
    /\ config = NoConfig
    /\ stderr = {}
    /\ fetched = NotFetched
    /\ serverList = <<>>
    /\ servers = <<>>
    /\ i = 0
    /\ server = NoServer
    /\ result = NoResult
    /\ results = <<>>
    /\ returned = NotReturned
    /\ recorded = <<>>
    /\ calls = <<>>
    /\ handles = NoHandles
    /\ lastSample = NoSample
    /\ cancelled = NotCancelled
    /\ rawServerID = <<>>

----------------------------------------------------------------------------
(* LoadConfig *)

(* a LoadConfig that warns about the strategy and keeps it *)
ResolveStrategyKeepRaw(raw) == raw

(* the strategy after the Valid() check and its fallback *)
ResolveStrategy(raw) ==
    IF ~Valid(raw) THEN MeasurementStrategySingleServer ELSE raw

(* a LoadConfig that reports the validation error and carries on *)
AfterValidationNoExit(invalid) == "loaded"

(* where the process goes after validateServerIDs: os.Exit(1) on an error *)
AfterValidation(invalid) == IF invalid THEN "exit_config" ELSE "loaded"

LoadConfig ==
    /\ pc = "start"
    /\ \E rawCount \in RawCounts, rawIDs \in RawServerIDs,
          skipDownload \in BOOLEAN, skipUpload \in BOOLEAN :
          LET measurementCount == IF rawCount < 1 THEN 1 ELSE rawCount
              raw       == getEnv(envStrategy, MeasurementStrategySingleServer)
              strategy  == ResolveStrategy(raw)
              serverIDs == parseServerIDs(rawIDs)
              invalid   == validateServerIDs(serverIDs, strategy,
                                             measurementCount)
          IN  /\ config' = [serverIDs    |-> serverIDs,
                            count        |-> measurementCount,
                            strategy     |-> strategy,
                            skipDownload |-> skipDownload,
                            skipUpload   |-> skipUpload]
              /\ stderr' = stderr
                             \cup (IF ~Valid(raw) THEN {"invalid-strategy"}
                                   ELSE {})
                             \cup (IF invalid THEN {"config-error"} ELSE {})
              /\ pc' = AfterValidation(invalid)
    /\ UNCHANGED <<envStrategy, fetched, serverList, servers, i, server,
                   result, results, returned, recorded, calls,
                   handles, lastSample, cancelled, rawServerID>>

----------------------------------------------------------------------------
(* Runner.Run: server selection *)

(* FetchServers fails *)
SelectFetchError ==
    /\ pc = "loaded"
    /\ fetched' = FetchFailed
    /\ calls' = Append(calls, Call("fetch", 0))
    /\ returned' = ReturnError(results)
    /\ pc' = "run_error"
    /\ UNCHANGED <<envStrategy, config, stderr, serverList, servers,
                   i, server, result, results, recorded,
                   handles, lastSample, cancelled, rawServerID>>

(* FetchServers succeeds and selectServers returns an error *)
SelectError ==
    /\ pc = "loaded"
    /\ \E catalog \in Catalogs :
         \E t \in Targets(config, catalog) :
           /\ SelectionFails(config, t)
           /\ fetched' = FetchedServers(catalog)
           /\ handles' = FetchedHandles(catalog)
           /\ serverList' = t.serverList
    /\ calls' = Append(calls, Call("fetch", 0))
    /\ returned' = ReturnError(results)
    /\ pc' = "run_error"
    /\ UNCHANGED <<envStrategy, config, stderr, servers, i, server, result,
                   results, recorded, lastSample, cancelled, rawServerID>>

(* FetchServers succeeds and selectServers returns the selected servers *)
SelectOk ==
    /\ pc = "loaded"
    /\ \E catalog \in Catalogs :
         \E t \in Targets(config, catalog) :
           /\ ~SelectionFails(config, t)
           /\ fetched' = FetchedServers(catalog)
           /\ handles' = FetchedHandles(catalog)
           /\ serverList' = t.serverList
           /\ servers' = selectedServers(config, t.targets)
           /\ stderr' = stderr
                          \cup (IF TooFewServers(config, t.targets)
                                THEN {"too-few-servers"} ELSE {})
    /\ calls' = Append(calls, Call("fetch", 0))
    /\ results' = <<>>
    /\ i' = 0
    /\ pc' = "round"
    /\ UNCHANGED <<envStrategy, config, server, result, returned, recorded,
                   lastSample, cancelled, rawServerID>>

----------------------------------------------------------------------------
(* Runner.Run: the measurement loop.  A phase that is not skipped is two  *)
(* steps: the call of DownloadTest or UploadTest, which blocks, and its   *)
(* return.                                                                *)

(* a round that numbers its result from zero *)
StartRoundZeroBased ==
    /\ pc = "round"
    /\ i < config.count
    /\ server' = RoundServer(config.strategy, servers, i)
    /\ result' = [NoResult EXCEPT !.server = server'.id, !.index = i]
    /\ pc' = "download"
    /\ UNCHANGED <<envStrategy, config, stderr, fetched, serverList, servers,
                   i, results, returned, recorded, calls,
                   handles, lastSample, cancelled, rawServerID>>

StartRound ==
    /\ pc = "round"
    /\ i < config.count
    /\ server' = RoundServer(config.strategy, servers, i)
    /\ result' = [NoResult EXCEPT !.server = server'.id, !.index = i + 1]
    /\ pc' = "download"
    /\ UNCHANGED <<envStrategy, config, stderr, fetched, serverList, servers,
                   i, results, returned, recorded, calls,
                   handles, lastSample, cancelled, rawServerID>>

DownloadSkip ==
    /\ pc = "download"
    /\ config.skipDownload
    /\ pc' = "upload"
    /\ UNCHANGED <<envStrategy, config, stderr, fetched, serverList, servers,
                   i, server, result, results, returned, recorded, calls,
                   handles, lastSample, cancelled, rawServerID>>

DownloadStart ==
    /\ pc = "download"
    /\ ~config.skipDownload
    /\ calls' = Append(calls, Call("download", i + 1))
    /\ pc' = "downloading"
    /\ UNCHANGED <<envStrategy, config, stderr, fetched, serverList, servers,
                   i, server, result, results, returned, recorded,
                   handles, lastSample, cancelled, rawServerID>>

(* DownloadTest leaves the speed in the server object; runDownloadTest    *)
(* reads it, and the latency, from there                                  *)
DownloadOk ==
    /\ pc = "downloading"
    /\ \E mbps \in Throughputs :
         handles' = [handles EXCEPT ![server.id].dl = mbps]
    /\ result' = [result EXCEPT !.download = handles'[server.id].dl]
    /\ lastSample' = [round |-> i + 1, op |-> "download",
                      latency |-> handles'[server.id].latency]
    /\ pc' = "upload"
    /\ UNCHANGED <<envStrategy, config, stderr, fetched, serverList, servers,
                   i, server, results, returned, recorded, calls,
                   cancelled, rawServerID>>

(* a failed download that is tried again *)
DownloadFailRetry ==
    /\ pc = "downloading"
    /\ pc' = "download"
    /\ UNCHANGED <<envStrategy, config, stderr, fetched, serverList, servers,
                   i, server, result, results, returned, recorded, calls,
                   handles, lastSample, cancelled, rawServerID>>

DownloadFail ==
    /\ pc = "downloading"
    /\ returned' = ReturnError(results)
    /\ pc' = "run_error"
    /\ UNCHANGED <<envStrategy, config, stderr, fetched, serverList, servers,
                   i, server, result, results, recorded, calls,
                   handles, lastSample, cancelled, rawServerID>>

UploadSkip ==
    /\ pc = "upload"
    /\ config.skipUpload
    /\ pc' = "complete"
    /\ UNCHANGED <<envStrategy, config, stderr, fetched, serverList, servers,
                   i, server, result, results, returned, recorded, calls,
                   handles, lastSample, cancelled, rawServerID>>

UploadStart ==
    /\ pc = "upload"
    /\ ~config.skipUpload
    /\ calls' = Append(calls, Call("upload", i + 1))
    /\ pc' = "uploading"
    /\ UNCHANGED <<envStrategy, config, stderr, fetched, serverList, servers,
                   i, server, result, results, returned, recorded,
                   handles, lastSample, cancelled, rawServerID>>

UploadOk ==
    /\ pc = "uploading"
    /\ \E mbps \in Throughputs :
         handles' = [handles EXCEPT ![server.id].ul = mbps]
    /\ result' = [result EXCEPT !.upload = handles'[server.id].ul]
    /\ lastSample' = [round |-> i + 1, op |-> "upload",
                      latency |-> handles'[server.id].latency]
    /\ pc' = "complete"
    /\ UNCHANGED <<envStrategy, config, stderr, fetched, serverList, servers,
                   i, server, results, returned, recorded, calls,
                   cancelled, rawServerID>>

UploadFail ==
    /\ pc = "uploading"
    /\ returned' = ReturnError(results)
    /\ pc' = "run_error"
    /\ UNCHANGED <<envStrategy, config, stderr, fetched, serverList, servers,
                   i, server, result, results, recorded, calls,
                   handles, lastSample, cancelled, rawServerID>>

(* a round that takes its latency from the catalog entry as selected *)
CompleteRoundSelectedLatency ==
    /\ pc = "complete"
    /\ result' = [result EXCEPT !.latency = server.latency]
    /\ results' = Append(results, result')
    /\ i' = i + 1
    /\ pc' = "round"
    /\ UNCHANGED <<envStrategy, config, stderr, fetched, serverList, servers,
                   server, returned, recorded, calls,
                   handles, lastSample, cancelled, rawServerID>>

CompleteRound ==
    /\ pc = "complete"
    /\ result' = [result EXCEPT !.latency = handles[server.id].latency]
    /\ results' = Append(results, result')
    /\ i' = i + 1
    /\ pc' = "round"
    /\ UNCHANGED <<envStrategy, config, stderr, fetched, serverList, servers,
                   server, returned, recorded, calls,
                   handles, lastSample, cancelled, rawServerID>>

RunReturn ==
    /\ pc = "round"
    /\ ~(i < config.count)
    /\ returned' = ReturnResults(results)
    /\ pc' = "run_ok"
    /\ UNCHANGED <<envStrategy, config, stderr, fetched, serverList, servers,
                   i, server, result, results, recorded, calls,
                   handles, lastSample, cancelled, rawServerID>>

----------------------------------------------------------------------------
(* main, after runner.Run *)

(* log.Fatalf("Speed test failed: ...") *)
MainFatal ==
    /\ pc = "run_error"
    /\ pc' = "exit_fatal"
    /\ UNCHANGED <<envStrategy, config, stderr, fetched, serverList, servers,
                   i, server, result, results, returned, recorded, calls,
                   handles, lastSample, cancelled, rawServerID>>

(* metrics.RecordSpeedTestMetrics(ctx, result) *)
MainRecord ==
    /\ pc = "run_ok"
    /\ recorded' = returned.results
    /\ pc' = "exit_ok"
    /\ UNCHANGED <<envStrategy, config, stderr, fetched, serverList, servers,
                   i, server, result, results, returned, calls,
                   handles, lastSample, cancelled, rawServerID>>

Next ==
    \/ LoadConfig
    \/ SelectFetchError
    \/ SelectError
    \/ SelectOk
    \/ StartRound
    \/ DownloadSkip
    \/ DownloadStart
    \/ DownloadOk
    \/ DownloadFail
    \/ UploadSkip
    \/ UploadStart
    \/ UploadOk
    \/ UploadFail
    \/ CompleteRound
    \/ RunReturn
    \/ MainFatal
    \/ MainRecord

Spec == Init /\ [][Next]_vars

----------------------------------------------------------------------------
(* validateServerIDs on its own: called once with any list of server IDs, *)
(* any strategy string and any count, the outcome kept in pc.             *)

ServerIDLists == {parseServerIDs(raw) : raw \in RawServerIDs}

InitValidate ==
    /\ pc = "validate"
    /\ envStrategy = ""
    /\ config \in {[NoConfig EXCEPT !.serverIDs = ids, !.strategy = strategy,
                                     !.count = count] :
                       ids \in ServerIDLists, strategy \in RawStrategies,
                       count \in RawCounts}
    /\ stderr = {}
    /\ fetched = NotFetched
    /\ serverList = <<>>
    /\ servers = <<>>
    /\ i = 0
    /\ server = NoServer
    /\ result = NoResult
    /\ results = <<>>
    /\ returned = NotReturned
    /\ recorded = <<>>
    /\ calls = <<>>
    /\ handles = NoHandles
    /\ lastSample = NoSample
    /\ cancelled = NotCancelled
    /\ rawServerID = <<>>

Validate ==
    /\ pc = "validate"
    /\ pc' = IF validateServerIDs(config.serverIDs, config.strategy,
                                  config.count)
             THEN "validate_error" ELSE "validate_ok"
    /\ UNCHANGED <<envStrategy, config, stderr, fetched, serverList, servers,
                   i, server, result, results, returned, recorded, calls,
                   handles, lastSample, cancelled, rawServerID>>

NextValidate == Validate

SpecValidate == InitValidate /\ [][NextValidate]_vars

(***************************************************************************)
(* Cancellation of main's context.  The signal goroutine calls cancel()    *)
(* at any moment before the process has exited.  The Runner hands ctx only *)
(* to tracer.Start: FetchServers(), DownloadTest() and UploadTest() take   *)
(* no context and Run never reads ctx.Err(), so cancel() changes nothing   *)
(* but the context itself.  `cancelled` keeps whether a phase was in       *)
(* flight at that moment and how many library calls had been made.         *)
(***************************************************************************)
Cancel ==
    /\ cancelled = NotCancelled
    /\ pc \notin {"exit_config", "exit_fatal", "exit_ok"}
    /\ cancelled' = [when  |-> IF pc \in {"downloading", "uploading"}
                               THEN "in_flight" ELSE "idle",
                     calls |-> Len(calls)]
    /\ UNCHANGED <<pc, envStrategy, config, stderr, fetched, serverList,
                   servers, i, server, result, results, returned, recorded,
                   calls, handles, lastSample, rawServerID>>

NextCancel ==
    \/ Next
    \/ Cancel

SpecCancel == Init /\ [][NextCancel]_vars

(***************************************************************************)
(* parseServerIDs on its own: the raw string is any string of at most      *)
(* MaxRawLen characters over digits, the comma and white space.            *)
(***************************************************************************)
RawChars == {"1", "2", ",", " ", "\t"}

RawStrings == UNION {[1..n -> RawChars] : n \in 0..MaxRawLen}

InitParse ==
    /\ pc = "parse"
    /\ rawServerID \in RawStrings
    /\ envStrategy = ""
    /\ config = NoConfig
    /\ stderr = {}
    /\ fetched = NotFetched
    /\ serverList = <<>>
    /\ servers = <<>>
    /\ i = 0
    /\ server = NoServer
    /\ result = NoResult
    /\ results = <<>>
    /\ returned = NotReturned
    /\ recorded = <<>>
    /\ calls = <<>>
    /\ handles = NoHandles
    /\ lastSample = NoSample
    /\ cancelled = NotCancelled

Parse ==
    /\ pc = "parse"
    /\ config' = [config EXCEPT !.serverIDs = parseServerIDs(rawServerID)]
    /\ pc' = "parsed"
    /\ UNCHANGED <<envStrategy, stderr, fetched, serverList, servers,
                   i, server, result, results, returned, recorded, calls,
                   handles, lastSample, cancelled, rawServerID>>

NextParse == Parse

SpecParse == InitParse /\ [][NextParse]_vars

(***************************************************************************)
(* Latency samples.  DownloadTest() and UploadTest() work on the server    *)
(* object through its pointer; what they do to its Latency and Jitter is   *)
(* the library's business, so while a phase is in flight the two fields of *)
(* the server under test may take any value.                               *)
(***************************************************************************)
SampleLatency ==
    /\ pc \in {"downloading", "uploading"}
    /\ \E l \in Latencies :
         /\ l # handles[server.id].latency
         /\ handles' = [handles EXCEPT ![server.id].latency = l]
    /\ UNCHANGED <<pc, envStrategy, config, stderr, fetched, serverList,
                   servers, i, server, result, results, returned, recorded,
                   calls, lastSample, cancelled, rawServerID>>

NextSample ==
    \/ Next
    \/ SampleLatency

SpecSample == Init /\ [][NextSample]_vars

----------------------------------------------------------------------------
(* Properties *)

LastCall == calls[Len(calls)]

(* Run returned an error because a download or upload phase failed *)
PhaseFailed ==
    /\ returned.err
    /\ calls # <<>>
    /\ LastCall.op \in {"download", "upload"}

(* C1: Run is all-or-nothing.  When the download or upload phase of a     *)
(* round fails, Run returns an error with no results at all, whatever the *)
(* rounds before it produced; no round or phase is started afterwards     *)
(* and nothing of the run is recorded to the metrics.                     *)
C1_AllOrNothing ==
    /\ [](PhaseFailed =>
            /\ returned.results = <<>>
            /\ recorded = <<>>
            /\ pc \in {"run_error", "exit_fatal"})
    /\ [][PhaseFailed =>
            /\ calls' = calls
            /\ i' = i
            /\ results' = results
            /\ returned' = returned
            /\ recorded' = <<>>]_vars

(* round 1 succeeded, the download of round 2 failed, the process exited *)
C1_Witness ==
    /\ PhaseFailed
    /\ LastCall = Call("download", 2)
    /\ Len(results) = 1
    /\ pc = "exit_fatal"

----------------------------------------------------------------------------
(* Server selection *)

InRound == pc \in {"download", "downloading", "upload", "uploading",
                   "complete"}

(* selectServers has returned its servers to Run *)
Selected ==
    /\ fetched.done
    /\ ~fetched.err
    /\ ~(returned.err /\ Len(calls) = 1)

Catalog == fetched.servers

Pinned == Len(config.serverIDs) > 0

Range(list) == {list[k] : k \in 1..Len(list)}

Resolves(id, catalog) == \E k \in 1..Len(catalog) : catalog[k].id = id

(* C2: with a non-empty list of server IDs, an ID that resolves to no    *)
(* entry of the fetched catalog makes server selection, and the run,     *)
(* fail with an error: the ID is not dropped and no other server stands  *)
(* in for it.                                                            *)
C2_UnresolvablePinFails ==
    (/\ fetched.done
     /\ ~fetched.err
     /\ Pinned
     /\ \E n \in 1..Len(config.serverIDs) :
            ~Resolves(config.serverIDs[n], Catalog))
    => (/\ returned.err
        /\ servers = <<>>
        /\ pc \in {"run_error", "exit_fatal"})

(* C3: multi-server with pinned IDs p1..pN and N rounds: round i runs    *)
(* against the server whose ID is p_i.                                   *)
C3_PinnedOrder ==
    (/\ InRound
     /\ config.strategy = MeasurementStrategyMultiServer
     /\ Pinned)
    => server.id = config.serverIDs[i + 1]

(* the catalog ordered by ascending latency, ties in catalog order *)
PositionIn(list, x) == CHOOSE k \in 1..Len(list) : list[k] = x

StableSorted(list) ==
    CHOOSE s \in SortSlice(list) :
        \A a, b \in 1..Len(s) :
            (a < b /\ s[a].latency = s[b].latency)
                => PositionIn(list, s[a]) < PositionIn(list, s[b])

MultiUnpinned ==
    /\ Selected
    /\ config.strategy = MeasurementStrategyMultiServer
    /\ ~Pinned

(* C4 as claimed: multi-server, no pins, at least measurementCount        *)
(* servers: the selection is the first measurementCount entries of the    *)
(* catalog sorted by ascending latency with a stable sort.                *)
C4_StableSelection ==
    (MultiUnpinned /\ Len(Catalog) >= config.count)
    => servers = SubSeq(StableSorted(Catalog), 1, config.count)

(* C4 as amended: the selection is measurementCount distinct catalog      *)
(* entries in ascending order of latency, none of them of higher latency  *)
(* than a catalog entry left out; the order among servers of equal        *)
(* latency is not fixed.                                                  *)
C4_LowestLatencySelection ==
    (MultiUnpinned /\ Len(Catalog) >= config.count)
    => (/\ Len(servers) = config.count
        /\ Range(servers) \subseteq Range(Catalog)
        /\ Cardinality(Range(servers)) = config.count
        /\ \A a, b \in 1..Len(servers) :
               a < b => servers[a].latency <= servers[b].latency
        /\ \A x \in Range(servers), y \in Range(Catalog) \ Range(servers) :
               x.latency <= y.latency)

(* three servers, two of them tied on the lowest latency, two rounds *)
C4_Witness ==
    /\ MultiUnpinned
    /\ config.count = 2
    /\ Len(Catalog) = 3
    /\ Catalog[1].latency = 20
    /\ Catalog[2].latency = 10
    /\ Catalog[3].latency = 10
    /\ pc = "exit_ok"

(* C5: multi-server, no pins, a non-empty catalog of A servers, A less    *)
(* than measurementCount: selection succeeds with a warning, its result   *)
(* is the whole catalog ranked by latency, and round i (0-based) runs     *)
(* against position i mod A of it.                                        *)
C5_WrapAround ==
    (/\ fetched.done
     /\ config.strategy = MeasurementStrategyMultiServer
     /\ ~Pinned
     /\ Len(Catalog) > 0
     /\ Len(Catalog) < config.count)
    => (/\ Selected
        /\ "too-few-servers" \in stderr
        /\ Len(servers) = Len(Catalog)
        /\ Range(servers) = Range(Catalog)
        /\ \A a, b \in 1..Len(servers) :
               a < b => servers[a].latency <= servers[b].latency
        /\ InRound => server = servers[(i % Len(Catalog)) + 1]
        /\ \A k \in 1..Len(results) :
               results[k].server = servers[((k - 1) % Len(Catalog)) + 1].id)

(* two servers, three rounds, the third round in progress on the first   *)
(* server again                                                          *)
C5_Witness ==
    /\ config.strategy = MeasurementStrategyMultiServer
    /\ ~Pinned
    /\ Len(Catalog) = 2
    /\ config.count = 3
    /\ pc = "upload"
    /\ i = 2
    /\ server = servers[1]
    /\ servers[1] # servers[2]

(* C6: single-server: selection yields exactly one server and every      *)
(* round runs against it.                                                *)
C6_SingleServerReused ==
    (Selected /\ config.strategy = MeasurementStrategySingleServer)
    => (/\ Len(servers) = 1
        /\ InRound => server = servers[1]
        /\ \A k \in 1..Len(results) : results[k].server = servers[1].id)

(* three rounds done on one server of a catalog of several *)
C6_Witness ==
    /\ Selected
    /\ config.strategy = MeasurementStrategySingleServer
    /\ config.count = 3
    /\ Len(Catalog) >= 2
    /\ Len(results) = 3
    /\ pc = "exit_ok"

(* C7: single-server, no pin: no catalog entry has a strictly lower      *)
(* latency than the selected server.                                     *)
C7_SingleLowestLatency ==
    (/\ Selected
     /\ config.strategy = MeasurementStrategySingleServer
     /\ ~Pinned)
    => \A k \in 1..Len(Catalog) : ~(Catalog[k].latency < servers[1].latency)

(* C8: a fetch that returns zero servers: selection fails, Run returns   *)
(* an error and no round is started, for both strategies, pinned or not. *)
C8_EmptyCatalogFails ==
    (fetched.done /\ ~fetched.err /\ Len(Catalog) = 0)
    => (/\ returned.err
        /\ returned.results = <<>>
        /\ servers = <<>>
        /\ calls = <<Call("fetch", 0)>>
        /\ result = NoResult
        /\ pc \in {"run_error", "exit_fatal"})

C8_Witness ==
    /\ fetched.done
    /\ ~fetched.err
    /\ Len(Catalog) = 0
    /\ config.strategy = MeasurementStrategyMultiServer
    /\ ~Pinned
    /\ pc = "exit_fatal"

----------------------------------------------------------------------------
(* Configuration *)

Loaded == pc \notin {"start", "validate"}

(* C9: validateServerIDs returns an error exactly when, in single-server *)
(* mode, more than one ID is given or, in multi-server mode, the number  *)
(* of IDs is neither 0 nor measurementCount; for every other combination *)
(* of IDs, strategy and count it returns no error.                       *)
C9_CardinalityValidation ==
    Loaded =>
        (pc \in {"validate_error", "exit_config"} <=>
            \/ /\ config.strategy = MeasurementStrategySingleServer
               /\ Len(config.serverIDs) > 1
            \/ /\ config.strategy = MeasurementStrategyMultiServer
               /\ Len(config.serverIDs) # 0
               /\ Len(config.serverIDs) # config.count)

(* multi-server, two server IDs for three rounds: an error *)
C9_Witness ==
    /\ pc = "validate_error"
    /\ config.strategy = MeasurementStrategyMultiServer
    /\ Len(config.serverIDs) = 2
    /\ config.count = 3

UnrecognizedStrategy ==
    ~Valid(getEnv(envStrategy, MeasurementStrategySingleServer))

(* C10: an unrecognized strategy is replaced by single-server with a     *)
(* warning; loading then fails only when the server-ID check fails for   *)
(* single-server, that is with more than one ID; the strategy of a       *)
(* loaded configuration is always single-server or multi-server.         *)
C10_StrategyFallback ==
    Loaded =>
        (/\ Valid(config.strategy)
         /\ UnrecognizedStrategy =>
               (/\ config.strategy = MeasurementStrategySingleServer
                /\ "invalid-strategy" \in stderr
                /\ pc = "exit_config" <=> Len(config.serverIDs) > 1))

(* an unrecognized strategy, three rounds, one server ID: loaded *)
C10_Witness ==
    /\ UnrecognizedStrategy
    /\ pc = "loaded"
    /\ config.count = 3
    /\ Len(config.serverIDs) = 1

(* the server IDs of the configuration break the rule of its strategy *)
CardinalityViolated ==
    \/ /\ config.strategy = MeasurementStrategySingleServer
       /\ Len(config.serverIDs) > 1
    \/ /\ config.strategy = MeasurementStrategyMultiServer
       /\ Len(config.serverIDs) \notin {0, config.count}

(* C11: a configuration whose server-ID count fails the validation ends  *)
(* the process in LoadConfig: the catalog is never fetched, no download  *)
(* or upload is ever started, and the process takes no further step.     *)
C11_ConfigErrorBeforeNetwork ==
    /\ []((Loaded /\ CardinalityViolated) =>
            /\ pc = "exit_config"
            /\ calls = <<>>
            /\ ~fetched.done
            /\ ~returned.done)
    /\ [][pc # "exit_config"]_vars

(* two server IDs in single-server mode: the process has exited *)
C11_Witness ==
    /\ pc = "exit_config"
    /\ config.strategy = MeasurementStrategySingleServer
    /\ Len(config.serverIDs) = 2
    /\ "config-error" \in stderr

(* C12: once the context is cancelled while a download or upload is in   *)
(* flight, no further phase is started, and when Run returns it returns   *)
(* an error and no measurement result.                                    *)
C12_CancelAbortsRun ==
    cancelled.when = "in_flight" =>
        /\ Len(calls) = cancelled.calls
        /\ returned.done => (returned.err /\ returned.results = <<>>)

(* how many times the phase `op` of round k was invoked *)
CallsOf(op, k) ==
    Cardinality({n \in 1..Len(calls) : calls[n] = Call(op, k)})

(* how many times a phase that is not skipped runs in a completed round *)
Once(skip) == IF skip THEN 0 ELSE 1

(* C13: every round runs download, then upload, then completes.  Each     *)
(* phase is invoked exactly once in a completed round when it is not      *)
(* skipped and never when it is, and at most once in any round (a failed  *)
(* phase is not retried).  An upload in flight follows directly on the    *)
(* successful download of the same round.  A skipped phase leaves its     *)
(* throughput at zero, and a round with both phases skipped still yields  *)
(* a result.                                                              *)
C13_RoundPhases ==
    /\ \A k \in 1..MaxCount :
         /\ CallsOf("download", k) <= 1
         /\ CallsOf("upload", k) <= 1
         /\ config.skipDownload => CallsOf("download", k) = 0
         /\ config.skipUpload => CallsOf("upload", k) = 0
    /\ \A k \in 1..Len(results) :
         /\ CallsOf("download", k) = Once(config.skipDownload)
         /\ CallsOf("upload", k) = Once(config.skipUpload)
         /\ config.skipDownload => results[k].download = 0
         /\ ~config.skipDownload => results[k].download \in Throughputs
         /\ config.skipUpload => results[k].upload = 0
         /\ ~config.skipUpload => results[k].upload \in Throughputs
    /\ (pc = "uploading" /\ ~config.skipDownload) =>
         /\ calls[Len(calls) - 1] = Call("download", i + 1)
         /\ result.download \in Throughputs
    /\ pc = "downloading" => CallsOf("upload", i + 1) = 0
    /\ pc = "complete" =>
         /\ CallsOf("download", i + 1) = Once(config.skipDownload)
         /\ CallsOf("upload", i + 1) = Once(config.skipUpload)

(* a second round completed with the download skipped and the upload run *)
C13_Witness ==
    /\ pc = "round"
    /\ Len(results) = 2
    /\ config.skipDownload
    /\ ~config.skipUpload
    /\ results[2].download = 0
    /\ results[2].upload \in Throughputs
    /\ CallsOf("upload", 2) = 1

(* C14: a successful Run returns exactly measurementCount results, the    *)
(* k-th of them with measurementIndex k.  The result list only grows, by  *)
(* appending the result of the round that completes, and a phase of round *)
(* k+1 is started only after the results of rounds 1..k were appended.    *)
C14_ResultsInOrder ==
    /\ [](/\ \A k \in 1..Len(results) : results[k].index = k
          /\ Len(results) <= config.count \/ config = NoConfig
          /\ InRound => i = Len(results)
          /\ (returned.done /\ ~returned.err) =>
                /\ returned.results = results
                /\ Len(returned.results) = config.count
                /\ \A k \in 1..config.count : returned.results[k].index = k)
    /\ [][/\ results' # results =>
               /\ results' = Append(results, result')
               /\ result'.index = Len(results) + 1
          /\ calls' # calls =>
               /\ calls' = Append(calls, calls'[Len(calls')])
               /\ calls'[Len(calls')].op \in {"download", "upload"} =>
                     calls'[Len(calls')].round = Len(results) + 1]_vars

(* a run of three rounds has returned its three results *)
C14_Witness ==
    /\ pc = "run_ok"
    /\ config.count = 3
    /\ Len(returned.results) = 3
    /\ returned.results[3].index = 3
    /\ ~config.skipDownload
    /\ CallsOf("download", 3) = 1

(* the phase that ran last in a round *)
LastPhase == IF config.skipUpload THEN "download" ELSE "upload"

(* C15: the latency and jitter of a completed round's result are the ones *)
(* the server object held when the last phase of that round returned: the *)
(* upload's when the upload ran, else the download's.                     *)
C15_LatencyOfLastPhase ==
    /\ (/\ pc = "round"
        /\ Len(results) >= 1
        /\ ~(config.skipDownload /\ config.skipUpload)) =>
          /\ lastSample.round = Len(results)
          /\ lastSample.op = LastPhase
    /\ (Len(results) >= 1 /\ lastSample.round = Len(results)) =>
          results[Len(results)].latency = lastSample.latency

(* the upload of round 1 left a latency that differs from the one the     *)
(* server had when it was selected, and the round has completed           *)
C15_Witness ==
    /\ pc = "round"
    /\ Len(results) = 1
    /\ ~config.skipDownload
    /\ lastSample = [round |-> 1, op |-> "upload",
                     latency |-> results[1].latency]
    /\ results[1].latency # server.latency

(* The parts of a raw string, by position: a part lies between two        *)
(* neighbouring boundaries, which are the commas and the two ends.        *)
PartStarts(s) == {0} \cup {n \in 1..Len(s) : s[n] = ","}

PartEnd(s, b) ==
    Min({n \in (b + 1)..(Len(s) + 1) : n = Len(s) + 1 \/ s[n] = ","})

PartAt(s, b) == SubSeq(s, b + 1, PartEnd(s, b) - 1)

(* a part without its surrounding white space *)
Trimmed(part) ==
    LET solid == {n \in 1..Len(part) : ~IsSpace(part[n])}
    IN  IF solid = {} THEN <<>>
        ELSE SubSeq(part, Min(solid), CHOOSE n \in solid :
                                         \A o \in solid : o <= n)

(* the boundaries whose part is not empty after trimming *)
KeptStarts(s) == {b \in PartStarts(s) : Trimmed(PartAt(s, b)) # <<>>}

(* C16: parseServerIDs returns the comma-separated parts of the raw       *)
(* string, each without its surrounding white space, leaving out the      *)
(* parts that are empty after trimming, in their order and with           *)
(* duplicates kept; an empty or all-blank string gives the empty list.    *)
C16_ParseServerIDs ==
    pc = "parsed" =>
        LET kept == KeptStarts(rawServerID)
        IN  /\ Len(config.serverIDs) = Cardinality(kept)
            /\ \A b \in kept :
                 config.serverIDs[Cardinality({c \in kept : c <= b})]
                     = Trimmed(PartAt(rawServerID, b))
            /\ (\A n \in 1..Len(rawServerID) : IsSpace(rawServerID[n])) =>
                 config.serverIDs = <<>>

(* "1, 1 " gives the ID 1 twice *)
C16_Witness ==
    /\ pc = "parsed"
    /\ rawServerID = <<"1", ",", " ", "1", " ">>
    /\ config.serverIDs = << <<"1">>, <<"1">> >>

(* the number of catalog fetches so far *)
Fetches == Cardinality({n \in 1..Len(calls) : calls[n].op = "fetch"})

(* the server objects as FetchServers delivered them *)
FetchedObjects == FetchedHandles(fetched.servers)

(* C17 as claimed: the catalog is fetched once and nothing changes it     *)
(* afterwards: the list keeps the order it was fetched in and the server  *)
(* objects keep their contents.                                           *)
C17_CatalogReadOnly ==
    /\ Fetches <= 1
    /\ (fetched.done /\ ~fetched.err) =>
          /\ serverList = fetched.servers
          /\ handles = FetchedObjects

(* C17 as the code has it: the catalog is fetched at most once per run,   *)
(* when selection starts, and keeps its entries.  Its order changes only  *)
(* in multi-server mode without server IDs, where selection sorts the     *)
(* fetched list itself by latency; no round reorders it.  Of the server   *)
(* objects only the one under test changes, and only in the speed its     *)
(* download or upload phase stores in it.                                 *)
C17_CatalogFrame ==
    /\ [](/\ Fetches <= 1
          /\ fetched.done <=> Fetches = 1
          /\ (fetched.done /\ ~fetched.err) =>
                /\ serverList \in Reorderings(fetched.servers)
                /\ serverList # fetched.servers =>
                      /\ config.strategy = MeasurementStrategyMultiServer
                      /\ ~Pinned
                      /\ serverList \in SortSlice(fetched.servers))
    /\ [][fetched.done =>
            /\ fetched' = fetched
            /\ serverList' = serverList
            /\ handles' # handles =>
                 /\ pc \in {"downloading", "uploading"}
                 /\ \A id \in CatalogIDs \ {server.id} :
                       handles'[id] = handles[id]]_vars

(* selection has reordered the fetched list, and the download of round 1  *)
(* has left its speed in the server object                                *)
C17_Witness ==
    /\ pc = "round"
    /\ Len(results) = 1
    /\ serverList # fetched.servers
    /\ handles[results[1].server].dl \in Throughputs
    /\ Fetches = 1

(* C18: when selectServers returns without error its list is not empty,  *)
(* so the lookup of every round of the run stays inside the list (and the *)
(* remainder is never taken by zero), and the server of a round in        *)
(* progress is one of the selected servers, never nil.                    *)
C18_LookupInRange ==
    Selected =>
        /\ Len(servers) >= 1
        /\ \A k \in 0..(config.count - 1) :
             RoundIndex(config.strategy, Len(servers), k)
                 \in 0..(Len(servers) - 1)
        /\ InRound =>
             /\ server # NoServer
             /\ server = servers[RoundIndex(config.strategy, Len(servers),
                                            i) + 1]

(* multi-server mode, two servers selected, the third round wraps around *)
C18_Witness ==
    /\ pc = "download"
    /\ config.strategy = MeasurementStrategyMultiServer
    /\ Len(servers) = 2
    /\ i = 2
    /\ server = servers[1]

====
